---- MODULE Spec2Model ----
(***************************************************************************)
(* YepCodeCodeExecutor (src/src/ag2_ext_yepcode/_yepcode_executor.py):     *)
(* the serial loop of execute_code_blocks over a remote execution client. *)
(*                                                                         *)
(* Python values are records [k, s]: k is the type name and s is str() of *)
(* the value, so that None, "" and 0 stay distinct and truthiness is       *)
(* computed as Python computes it.  Python str values are TLA+ strings.    *)
(***************************************************************************)
EXTENDS Integers, Sequences, FiniteSets, TLC

\* ---------------------------------------------------------------- bounds
MaxLanguageLen == 2 \* longest language name spelled from LanguageLetters
MaxBlocks == 2      \* longest batch handed to execute_code_blocks
MaxCalls == 2       \* execute_code_blocks calls made on the one instance

\* --------------------------------------------------------- Python values
None == [k |-> "NoneType", s |-> "None"]
Str(s) == [k |-> "str", s |-> s]
Num(s) == [k |-> "int", s |-> s]

\* bool(v): the test of `if v:` on a value
Truthy(v) ==
    CASE v.k = "NoneType" -> FALSE
      [] v.k = "str"      -> v.s # ""
      [] v.k = "int"      -> v.s # "0"
      [] OTHER            -> TRUE

\* str(v), what an f-string places for {v}
Format(v) == v.s

\* ------------------------------------------------------- string helpers
UpperAlphabet == "ABCDEFGHIJKLMNOPQRSTUVWXYZ"
LowerAlphabet == "abcdefghijklmnopqrstuvwxyz"

LowerChar(c) ==
    IF \E i \in 1..Len(UpperAlphabet) : SubSeq(UpperAlphabet, i, i) = c
    THEN LET i == CHOOSE j \in 1..Len(UpperAlphabet) : SubSeq(UpperAlphabet, j, j) = c
         IN  SubSeq(LowerAlphabet, i, i)
    ELSE c

RECURSIVE lower(_)
lower(s) ==
    IF Len(s) = 0 THEN ""
    ELSE LowerChar(SubSeq(s, 1, 1)) \o lower(SubSeq(s, 2, Len(s)))

\* sep.join(parts)
RECURSIVE join(_, _)
join(sep, parts) ==
    IF Len(parts) = 0 THEN ""
    ELSE IF Len(parts) = 1 THEN parts[1]
    ELSE parts[1] \o sep \o join(sep, Tail(parts))

\* s.startswith(p), used to state the claims
StartsWith(s, p) == Len(p) <= Len(s) /\ SubSeq(s, 1, Len(p)) = p

\* p occurs in s, used to state the claims
Contains(s, p) ==
    \E i \in 1..(Len(s) - Len(p) + 1) : SubSeq(s, i, i + Len(p) - 1) = p

\* ------------------------------------------------------------ the class
SUPPORTED_LANGUAGES == <<"python", "javascript">>

\* mutant: a name that is no alias is handed back as it was written
_normalize_language_KeepsOthers(l) ==
    LET lang == lower(l)
    IN  IF lang \in {"js", "javascript"} THEN "javascript"
        ELSE IF lang \in {"python", "py"} THEN "python"
        ELSE l

\* lines 112-120
_normalize_language(l) ==
    LET lang == lower(l)
    IN  IF lang \in {"js", "javascript"} THEN "javascript"
        ELSE IF lang \in {"python", "py"} THEN "python"
        ELSE lang

\* `lang not in ["python", "javascript"]` negated
LanguageAccepted(lang) == lang \in {"python", "javascript"}

YepCodeCodeResult(exit_code, output, execution_id) ==
    [exit_code |-> exit_code, output |-> output, execution_id |-> execution_id]

\* mutant: the message names the normalized language
UnsupportedOutput_Normalized(language) ==
    "Unsupported language: " \o lower(language) \o ". Supported languages: "
        \o join(", ", SUPPORTED_LANGUAGES)

\* line 143
UnsupportedOutput(language) ==
    "Unsupported language: " \o language \o ". Supported languages: "
        \o join(", ", SUPPORTED_LANGUAGES)

\* mutant: the timeout is handed over in seconds
RunOptions_InSeconds(lang, remove_on_done, timeout) ==
    [language |-> lang, removeOnDone |-> remove_on_done, timeout |-> timeout]

\* lines 150-154
RunOptions(lang, remove_on_done, timeout) ==
    [language |-> lang, removeOnDone |-> remove_on_done, timeout |-> timeout * 1000]

LogLine(log) == log.timestamp \o " - " \o log.level \o ": " \o log.message

LogLines(logs) == [i \in 1..Len(logs) |-> LogLine(logs[i])]

LogsOutput(logs) ==
    IF Len(logs) > 0
    THEN "\n\nExecution logs:\n" \o join("\n", LogLines(logs))
    ELSE ""

\* mutant: the log section is left out of the failure text
ErrorOutput_WithoutLogs(error, logs_output) ==
    "Execution failed with error:\n" \o Format(error)

\* line 175
ErrorOutput(error, logs_output) ==
    "Execution failed with error:\n" \o Format(error) \o logs_output

ResultOutput(return_value, logs_output) ==
    (IF Truthy(return_value)
     THEN "Execution result:\n" \o Format(return_value)
     ELSE "") \o logs_output

AsyncOutput(id) == "Execution started with ID: " \o Format(id)

ExceptionOutput(message) == "Error executing code: " \o message

\* mutant: empty outputs are left out of the join
FinalOutput_SkipsEmpty(outs) == join("\n===\n", SelectSeq(outs, LAMBDA o : o # ""))

\* line 200
FinalOutput(outs) == join("\n===\n", outs)

\* ------------------------------------------------------------ the inputs
\* code blocks an agent can hand over: exact names, aliases in other case,
\* and languages the service does not run
BlockPool ==
    { [language |-> "python", code |-> "print('First')"],
      [language |-> "JS",     code |-> "console.log('Second')"],
      [language |-> "Java",   code |-> "class A {}"] }

RECURSIVE SeqsUpTo(_, _)
SeqsUpTo(S, n) ==
    IF n = 0 THEN { <<>> }
    ELSE LET shorter == SeqsUpTo(S, n - 1)
         IN  shorter \cup { Append(q, x) : q \in { r \in shorter : Len(r) = n - 1 }, x \in S }

Batches == SeqsUpTo(BlockPool, MaxBlocks)

\* what the remote client can report for a finished execution
Log1 == [timestamp |-> "2023-01-01T00:00:00Z", level |-> "INFO", message |-> "Hello"]
Log2 == [timestamp |-> "2023-01-01T00:00:01Z", level |-> "ERROR", message |-> "Execution failed"]

Handle(error, return_value, logs) ==
    [error |-> error, return_value |-> return_value, logs |-> logs]

NameError == Str("NameError: name 'undefined_var' is not defined")

\* the terminal states wait_for_done can leave in the handle: success with and
\* without a return value and log entries, a return value that is not None
\* but false (0), an error with and without log entries, an empty error text
Fetched ==
    { Handle(None, Str("Hello, World!"), <<Log1>>),
      Handle(None, Str("Hello, World!"), <<>>),
      Handle(None, None, <<>>),
      Handle(None, None, <<Log1, Log2>>),
      Handle(None, Num("0"), <<>>),
      Handle(Str(""), Str("Hello, World!"), <<>>),
      Handle(NameError, None, <<Log2>>),
      Handle(NameError, None, <<>>) }

\* str(e) of the exceptions (instances of Exception) the client raises
ExceptionMessages == { "Runtime error" }

\* the configurations of the instance: the defaults of lines 74-76 and a custom
\* timeout with removal, each waiting or not
Configurations ==
    { [timeout |-> t[1], remove_on_done |-> t[2], sync_execution |-> sync] :
          t \in { << 60, FALSE >>, << 1, TRUE >> }, sync \in BOOLEAN }

\* the id the service gives its n-th execution
ExecutionId(n) == Str("exec_" \o ToString(n))

\* ------------------------------------------------------------- the state
VARIABLES
    ctor_args,           \* the arguments of __init__ and the environment it reads
    ctor_result,         \* "pending", "constructed", or the exception __init__ raised
    _api_token,          \* self._api_token
    _runner,             \* self._runner: the client and the token it was set up with
    language,            \* the argument of a _normalize_language call
    normalized,          \* what that call returned
    _timeout,            \* self._timeout (seconds)
    _remove_on_done,     \* self._remove_on_done
    _sync_execution,     \* self._sync_execution
    pc,                  \* "idle", "loop" (top of the for loop), "wait" (inside
                         \* wait_for_done), "done" (returned), "raised"
    code_blocks,         \* the argument of the call in progress
    idx,                 \* position of the for loop in code_blocks
    outputs,             \* the local list outputs
    last_execution_id,   \* the local last_execution_id
    execution,           \* the local execution: the handle run returned
    result,              \* the YepCodeCodeResult returned
    ret,                 \* which return statement produced result
    events,              \* what this call did with the remote client, in order
    run_args,            \* the (code, options) of every run call of this call
    running,             \* ids of remote executions of this batch not yet terminal
    issued,              \* number of executions the service has created
    ncalls               \* execute_code_blocks calls made so far

vars == << ctor_args, ctor_result, _api_token, _runner, language, normalized,
           _timeout, _remove_on_done, _sync_execution, pc, code_blocks, idx,
           outputs, last_execution_id, execution, result, ret, events,
           run_args, running, issued, ncalls >>

\* what the instance holds: the configuration and the client handle
config == << _api_token, _runner, _timeout, _remove_on_done, _sync_execution >>

\* the construction that made the instance
ctor == << ctor_args, ctor_result >>

\* a _normalize_language call on its own
pure == << language, normalized >>

NoExecution == [id |-> None, error |-> None, return_value |-> None, logs |-> <<>>]
NoResult == YepCodeCodeResult(-1, "", None)

Event(op, block, id, val) == [op |-> op, block |-> block, id |-> id, val |-> val]

\* ------------------------------------------------------------- __init__
CtorArgs(api_token, environ, timeout, remove_on_done, sync_execution, setup_raises) ==
    [api_token |-> api_token, environ |-> environ, timeout |-> timeout,
     remove_on_done |-> remove_on_done, sync_execution |-> sync_execution,
     setup_raises |-> setup_raises]

\* x or y
Or(x, y) == IF Truthy(x) THEN x ELSE y

\* mutant: the environment wins over the argument
ResolvedToken_EnvironmentFirst(a) == Or(a.environ, a.api_token)

\* line 86: api_token or os.getenv("YEPCODE_API_TOKEN")
ResolvedToken(a) == Or(a.api_token, a.environ)

\* lines 96-98: the client set up with a token
YepCodeRun(token) == [api_token |-> token]

\* lines 78-100: how __init__ ends for the arguments a
CtorOutcome(a) ==
    IF a.timeout < 1 THEN "ValueError: Timeout must be greater than or equal to 1."
    ELSE IF ~Truthy(ResolvedToken(a)) THEN "ValueError: YepCode API token is required."
    ELSE IF a.setup_raises THEN "RuntimeError: Failed to initialize YepCode runner"
    ELSE "constructed"

\* lines 86-98: the fields a successful __init__ leaves in the instance
Constructed(a) ==
    /\ _api_token = ResolvedToken(a)
    /\ _runner = YepCodeRun(ResolvedToken(a))
    /\ _timeout = a.timeout
    /\ _remove_on_done = a.remove_on_done
    /\ _sync_execution = a.sync_execution

\* the constructions behind the instances of Configurations: a token passed
\* explicitly, nothing in the environment
InitArgs ==
    { CtorArgs(Str("test_token"), None, c.timeout, c.remove_on_done, c.sync_execution, FALSE) :
          c \in Configurations }

\* execute_code_blocks has not been called
NoCall ==
    /\ code_blocks = <<>>
    /\ idx = 0
    /\ outputs = <<>>
    /\ last_execution_id = None
    /\ execution = NoExecution
    /\ result = NoResult
    /\ ret = "none"
    /\ events = <<>>
    /\ run_args = <<>>
    /\ running = {}
    /\ issued = 0
    /\ ncalls = 0

\* the executor as __init__ leaves it, no call made yet
Init ==
    /\ ctor_args \in InitArgs
    /\ ctor_result = CtorOutcome(ctor_args)
    /\ Constructed(ctor_args)
    /\ language = ""
    /\ normalized = ""
    /\ pc = "idle"
    /\ NoCall

\* mutant: an empty batch is reported as a failure
EmptyResult_Fails == YepCodeCodeResult(1, "No code blocks to execute", None)

\* line 132
EmptyResult == YepCodeCodeResult(0, "", None)

\* the return statement at `site` hands `r` to the caller
Return(site, r) ==
    /\ pc' = "done"
    /\ ret' = site
    /\ result' = r

\* mutant: the last id is kept on the instance and a call starts from it
InitialLastExecutionId_FromEarlierCall ==
    IF issued = 0 THEN None ELSE ExecutionId(issued)

\* line 135: last_execution_id: Optional[str] = None
InitialLastExecutionId == None

\* lines 131-135: the call starts; an empty batch returns at once
Execute ==
    /\ pc = "idle"
    /\ ncalls < MaxCalls
    /\ \E blocks \in Batches :
          /\ code_blocks' = blocks
          /\ IF Len(blocks) = 0
             THEN /\ Return("empty", EmptyResult)
                  /\ idx' = 0
             ELSE /\ pc' = "loop"
                  /\ idx' = 1
                  /\ UNCHANGED << result, ret >>
    /\ outputs' = <<>>
    /\ last_execution_id' = InitialLastExecutionId
    /\ ncalls' = ncalls + 1
    /\ UNCHANGED << config, ctor, pure, execution, events, run_args, running, issued >>

\* the block the loop is at, and its normalized language
Block == code_blocks[idx]
Lang == _normalize_language(Block.language)
AtBlock == pc = "loop" /\ idx <= Len(code_blocks)

\* mutant: a block in an unsupported language is skipped
Reject_Skips ==
    /\ AtBlock
    /\ ~LanguageAccepted(Lang)
    /\ events' = Append(events, Event("reject", idx, None, None))
    /\ idx' = idx + 1
    /\ UNCHANGED << config, ctor, pure, pc, code_blocks, outputs, last_execution_id, execution,
                    result, ret, run_args, running, issued, ncalls >>

\* mutant: the unsupported-language outcome carries the last id seen
Reject_ReportsLastId ==
    /\ AtBlock
    /\ ~LanguageAccepted(Lang)
    /\ Return("unsupported",
              YepCodeCodeResult(1, UnsupportedOutput(Block.language), last_execution_id))
    /\ events' = Append(events, Event("reject", idx, None, None))
    /\ UNCHANGED << config, ctor, pure, code_blocks, idx, outputs, last_execution_id,
                    execution, run_args, running, issued, ncalls >>

\* lines 140-144: the block's language is not supported
Reject ==
    /\ AtBlock
    /\ ~LanguageAccepted(Lang)
    /\ Return("unsupported", YepCodeCodeResult(1, UnsupportedOutput(Block.language), None))
    /\ events' = Append(events, Event("reject", idx, None, None))
    /\ UNCHANGED << config, ctor, pure, code_blocks, idx, outputs, last_execution_id,
                    execution, run_args, running, issued, ncalls >>

\* the run call of lines 148-155, as the client receives it
RunCall == [code |-> Block.code, options |-> RunOptions(Lang, _remove_on_done, _timeout)]

\* mutant: the try statement closed right after the run call
Caught_RunOnly(site) == site = "run"

\* lines 146-197: the sites whose exceptions the try statement catches
Caught(site) == site \in {"run", "wait_for_done"}

\* mutant: the except clause forgets the id seen so far
Raise_WithoutId(site, message) ==
    Return(site \o "_raised", YepCodeCodeResult(1, ExceptionOutput(message), None))

\* an exception with str(e) = message leaves `site`
Raise(site, message) ==
    IF Caught(site)
    THEN Return(site \o "_raised",
                YepCodeCodeResult(1, ExceptionOutput(message), last_execution_id))
    ELSE /\ pc' = "raised"
         /\ UNCHANGED << result, ret >>

\* mutant: a failed submission is skipped and the loop goes on
RunRaises_Continues ==
    /\ AtBlock
    /\ LanguageAccepted(Lang)
    /\ \E message \in ExceptionMessages :
          events' = Append(events, Event("run_raised", idx, None, Str(message)))
    /\ run_args' = Append(run_args, RunCall)
    /\ idx' = idx + 1
    /\ UNCHANGED << config, ctor, pure, pc, code_blocks, outputs, last_execution_id, execution,
                    result, ret, running, issued, ncalls >>

\* lines 148-155, 192-197: run raises
RunRaises ==
    /\ AtBlock
    /\ LanguageAccepted(Lang)
    /\ \E message \in ExceptionMessages :
          /\ Raise("run", message)
          /\ events' = Append(events, Event("run_raised", idx, None, Str(message)))
    /\ run_args' = Append(run_args, RunCall)
    /\ UNCHANGED << config, ctor, pure, code_blocks, idx, outputs, last_execution_id,
                    execution, running, issued, ncalls >>

\* mutant: the logs of the handle are read before wait_for_done is called
SubmitAs_ReadsLogsFirst(sync) ==
    /\ AtBlock
    /\ LanguageAccepted(Lang)
    /\ LET id == ExecutionId(issued + 1)
           ran == Append(events, Event("run", idx, id, None))
       IN  /\ issued' = issued + 1
           /\ running' = running \cup {id}
           /\ execution' = [NoExecution EXCEPT !.id = id]
           /\ last_execution_id' = id
           /\ run_args' = Append(run_args, RunCall)
           /\ IF sync
              THEN /\ pc' = "wait"
                   /\ events' = ran \o << Event("logs", idx, id, None),
                                          Event("wait_for_done", idx, id, None) >>
                   /\ UNCHANGED << outputs, idx >>
              ELSE /\ pc' = "loop"
                   /\ events' = ran
                   /\ outputs' = Append(outputs, AsyncOutput(id))
                   /\ idx' = idx + 1
    /\ UNCHANGED << config, ctor, pure, code_blocks, result, ret, ncalls >>

\* lines 148-161, 189-190: run returns a handle; when `sync`, wait_for_done is
\* entered, otherwise the id is reported and the loop goes on
SubmitAs(sync) ==
    /\ AtBlock
    /\ LanguageAccepted(Lang)
    /\ LET id == ExecutionId(issued + 1)
           ran == Append(events, Event("run", idx, id, None))
       IN  /\ issued' = issued + 1
           /\ running' = running \cup {id}
           /\ execution' = [NoExecution EXCEPT !.id = id]
           /\ last_execution_id' = id
           /\ run_args' = Append(run_args, RunCall)
           /\ IF sync
              THEN /\ pc' = "wait"
                   /\ events' = Append(ran, Event("wait_for_done", idx, id, None))
                   /\ UNCHANGED << outputs, idx >>
              ELSE /\ pc' = "loop"
                   /\ events' = ran
                   /\ outputs' = Append(outputs, AsyncOutput(id))
                   /\ idx' = idx + 1
    /\ UNCHANGED << config, ctor, pure, code_blocks, result, ret, ncalls >>

\* mutants: the branch of line 159 taken whatever the configuration says
Submit_NeverWaits == SubmitAs(FALSE)
Submit_AlwaysWaits == SubmitAs(TRUE)

\* line 159: `if self._sync_execution`
Submit == SubmitAs(_sync_execution)

\* the service: an execution of this batch reaches a terminal state
RemoteFinish ==
    /\ \E id \in running : running' = running \ {id}
    /\ UNCHANGED << config, ctor, pure, pc, code_blocks, idx, outputs, last_execution_id,
                    execution, result, ret, events, run_args, issued, ncalls >>

\* lines 161, 192-197: wait_for_done raises
WaitRaises ==
    /\ pc = "wait"
    /\ \E message \in ExceptionMessages :
          /\ Raise("wait_for_done", message)
          /\ events' = Append(events, Event("wait_raised", idx, execution.id, Str(message)))
    /\ UNCHANGED << config, ctor, pure, code_blocks, idx, outputs, last_execution_id,
                    execution, run_args, running, issued, ncalls >>

\* lines 161-188: wait_for_done returns once the execution is terminal; the
\* handle then carries what the service reports, and the block's output is built
WaitReturns ==
    /\ pc = "wait"
    /\ execution.id \notin running
    /\ \E f \in Fetched :
          LET logs_output == LogsOutput(f.logs)
              read == events \o << Event("wait_returned", idx, execution.id, None),
                                   Event("logs", idx, execution.id, None),
                                   Event("error", idx, execution.id, f.error) >>
          IN  /\ execution' = [execution EXCEPT !.error = f.error,
                                                !.return_value = f.return_value,
                                                !.logs = f.logs]
              /\ IF Truthy(f.error)
                 THEN /\ Return("execution_error",
                                YepCodeCodeResult(1, ErrorOutput(f.error, logs_output),
                                                  execution.id))
                      /\ events' = read
                      /\ UNCHANGED << outputs, idx >>
                 ELSE /\ pc' = "loop"
                      /\ events' = Append(read, Event("return_value", idx, execution.id,
                                                       f.return_value))
                      /\ outputs' = Append(outputs, ResultOutput(f.return_value, logs_output))
                      /\ idx' = idx + 1
                      /\ UNCHANGED << result, ret >>
    /\ UNCHANGED << config, ctor, pure, code_blocks, last_execution_id, run_args, running,
                    issued, ncalls >>

\* lines 199-201: every block went through
Complete ==
    /\ pc = "loop"
    /\ idx > Len(code_blocks)
    /\ Return("completed", YepCodeCodeResult(0, FinalOutput(outputs), last_execution_id))
    /\ UNCHANGED << config, ctor, pure, code_blocks, idx, outputs, last_execution_id,
                    execution, events, run_args, running, issued, ncalls >>

\* the caller has the result; the locals of the call are gone
Collect ==
    /\ pc = "done"
    /\ pc' = "idle"
    /\ code_blocks' = <<>>
    /\ idx' = 0
    /\ outputs' = <<>>
    /\ last_execution_id' = None
    /\ execution' = NoExecution
    /\ result' = NoResult
    /\ ret' = "none"
    /\ events' = <<>>
    /\ run_args' = <<>>
    /\ running' = {}
    /\ UNCHANGED << config, ctor, pure, issued, ncalls >>

\* --------------------------------- a _normalize_language call on its own
\* the letters of the short aliases, in both cases, and two others
LanguageLetters == { "p", "P", "y", "Y", "j", "J", "s", "S", "c", "+" }

RECURSIVE Spellings(_)
Spellings(n) ==
    IF n = 0 THEN { "" }
    ELSE LET shorter == Spellings(n - 1)
         IN  shorter \cup { w \o c : w \in { v \in shorter : Len(v) = n - 1 },
                                     c \in LanguageLetters }

\* the language names a code block can carry
Languages ==
    Spellings(MaxLanguageLen)
        \cup { "python", "Python", "PYTHON", "pYtHoN", "javascript", "JavaScript",
               "JAVASCRIPT", "java", "Java", "Ruby", "TypeScript", "bash", "C++" }

InitNormalize ==
    /\ ctor_args = CtorArgs(Str("test_token"), None, 60, FALSE, TRUE, FALSE)
    /\ ctor_result = CtorOutcome(ctor_args)
    /\ Constructed(ctor_args)
    /\ language \in Languages
    /\ normalized = ""
    /\ pc = "normalize"
    /\ NoCall

\* lines 112-120
Normalize ==
    /\ pc = "normalize"
    /\ normalized' = _normalize_language(language)
    /\ pc' = "normalized"
    /\ UNCHANGED << config, ctor, language, code_blocks, idx, outputs,
                    last_execution_id, execution, result, ret, events, run_args,
                    running, issued, ncalls >>

NextNormalize == Normalize

SpecNormalize == InitNormalize /\ [][NextNormalize]_vars

\* ------------------------------------------------------ __init__ on its own
Tokens == { None, Str(""), Str("test_token") }
EnvironmentTokens == { None, Str(""), Str("env_token") }
CtorTimeouts == { -1, 0, 1, 2, 60 }

AllCtorArgs ==
    { CtorArgs(t, e, n, r, s, x) :
          t \in Tokens, e \in EnvironmentTokens, n \in CtorTimeouts,
          r \in BOOLEAN, s \in BOOLEAN, x \in BOOLEAN }

\* no instance yet: __init__ is about to run on ctor_args
InitConstruct ==
    /\ ctor_args \in AllCtorArgs
    /\ ctor_result = "pending"
    /\ _api_token = None
    /\ _runner = None
    /\ _timeout = None
    /\ _remove_on_done = None
    /\ _sync_execution = None
    /\ language = ""
    /\ normalized = ""
    /\ pc = "new"
    /\ NoCall

\* lines 78-100
Construct ==
    /\ pc = "new"
    /\ ctor_result' = CtorOutcome(ctor_args)
    /\ IF CtorOutcome(ctor_args) = "constructed"
       THEN /\ pc' = "idle"
            /\ _api_token' = ResolvedToken(ctor_args)
            /\ _runner' = YepCodeRun(ResolvedToken(ctor_args))
            /\ _timeout' = ctor_args.timeout
            /\ _remove_on_done' = ctor_args.remove_on_done
            /\ _sync_execution' = ctor_args.sync_execution
       ELSE /\ pc' = "failed"
            /\ UNCHANGED config
    /\ UNCHANGED << ctor_args, pure, code_blocks, idx, outputs, last_execution_id,
                    execution, result, ret, events, run_args, running, issued, ncalls >>

NextConstruct == Construct

SpecConstruct == InitConstruct /\ [][NextConstruct]_vars

\* lines 203-205: restart() between two calls; its body is `pass`
Restart ==
    /\ pc = "idle"
    /\ UNCHANGED vars

Next ==
    \/ Execute
    \/ Reject
    \/ RunRaises
    \/ Submit
    \/ RemoteFinish
    \/ WaitRaises
    \/ WaitReturns
    \/ Complete
    \/ Collect
    \/ Restart

Spec == Init /\ [][Next]_vars

TypeOK ==
    /\ pc \in {"idle", "loop", "wait", "done", "raised"}
    /\ idx \in 0..(MaxBlocks + 1)
    /\ Len(outputs) <= Len(code_blocks)

\* ------------------------------------------------- reading the event log
EventsOf(ops) == SelectSeq(events, LAMBDA e : e.op \in ops)

\* the run calls of this call, in call order, returned or raised
RunEvents == EventsOf({"run", "run_raised"})

\* the run calls that returned a handle
Submitted == EventsOf({"run"})

\* the normalized language of block i is one the service runs
BlockSupported(i) ==
    _normalize_language(code_blocks[i].language) \in {"python", "javascript"}

\* the execution handed back a non-empty error text
ErrorReported(error) == error.k = "str" /\ error.s # ""

\* the j-th run call is for block j and carries that block's code
InInputOrder ==
    /\ Len(run_args) = Len(RunEvents)
    /\ Len(RunEvents) <= Len(code_blocks)
    /\ \A j \in 1..Len(RunEvents) :
          /\ RunEvents[j].block = j
          /\ run_args[j].code = code_blocks[j].code
    /\ (ret = "completed" => Len(Submitted) = Len(code_blocks))

\* ------------------------------------------------------------------ C1
\* C1 as stated: in sync and in async mode alike, the blocks are submitted
\* in input order, one run call per block, and at every moment at most one
\* remote execution started by this batch is still running.
C1_AtMostOneRunningInEveryMode ==
    /\ InInputOrder
    /\ Cardinality(running) <= 1

\* C1 as amended: in every mode the blocks are submitted in input order, one
\* run call per block reached; in sync mode at most one remote execution of
\* the batch is still running at any moment, while in async mode nothing is
\* awaited and at most one execution per submitted block is running.
C1_SerialSubmission ==
    /\ InInputOrder
    /\ (_sync_execution => Cardinality(running) <= 1)
    /\ Cardinality(running) <= Len(Submitted)
    /\ (pc = "loop" /\ _sync_execution => running = {})

\* sync mode, second block of a batch submitted and awaited, the first one over
C1_Witness ==
    /\ _sync_execution
    /\ pc = "wait"
    /\ idx = 2
    /\ Len(Submitted) = 2
    /\ running = {execution.id}

\* ------------------------------------------------------------------ C2
\* an event after which the batch has failed at its block
IsFailure(e) ==
    \/ e.op \in {"reject", "run_raised"}
    \/ e.op = "error" /\ ErrorReported(e.val)

\* C2: once a block fails (unsupported language, run raising, or in sync
\* mode its execution reporting an error) nothing more is done with the
\* remote client for that block or a later one and the outcome has
\* exit_code 1; run is called at most once per block.
C2_FailFast ==
    /\ \A p \in 1..Len(events) :
          IsFailure(events[p]) =>
              /\ p = Len(events)
              /\ pc = "done"
              /\ result.exit_code = 1
    /\ \A p, q \in 1..Len(RunEvents) :
          RunEvents[p].block = RunEvents[q].block => p = q
    /\ Len(EventsOf({"wait_for_done"})) <= Len(Submitted)

\* the first of two blocks failed at run: the second was never submitted
C2_Witness ==
    /\ pc = "done"
    /\ ret = "run_raised"
    /\ Len(code_blocks) = 2
    /\ idx = 1
    /\ Len(RunEvents) = 1
    /\ BlockSupported(2)

\* ------------------------------------------------------------------ C3
\* C3: execute_code_blocks never raises to its caller; whatever the batch
\* and whatever the remote client does, the call ends by returning an
\* outcome whose exit_code is 0 or 1.
C3_NeverRaises ==
    /\ pc # "raised"
    /\ (pc = "done" => ret # "none" /\ result.exit_code \in {0, 1})
    /\ (pc # "done" => ret = "none" /\ result = NoResult)

\* wait_for_done raised on the second block and the call still returned
C3_Witness ==
    /\ pc = "done"
    /\ ret = "wait_for_done_raised"
    /\ idx = 2
    /\ result.exit_code = 1

\* ------------------------------------------------------------------ C4
\* nothing went wrong with any block of the batch
AllBlocksClean ==
    /\ \A i \in 1..Len(code_blocks) : BlockSupported(i)
    /\ EventsOf({"run_raised"}) = <<>>
    /\ (_sync_execution =>
          /\ EventsOf({"wait_raised"}) = <<>>
          /\ \A p \in 1..Len(events) :
                events[p].op = "error" => ~ErrorReported(events[p].val))

\* C4: the outcome has exit_code 0 exactly when every block has a supported
\* normalized language, every run returned and, in sync mode, every
\* wait_for_done returned and no execution reported an error; run was then
\* called exactly once for every block.  In every other case it is 1.
C4_ExitCode ==
    pc = "done" =>
        /\ (result.exit_code = 0 <=> AllBlocksClean)
        /\ (result.exit_code # 0 => result.exit_code = 1)
        /\ (result.exit_code = 0 =>
              /\ Len(Submitted) = Len(code_blocks)
              /\ \A i \in 1..Len(code_blocks) :
                    Cardinality({ p \in 1..Len(RunEvents) : RunEvents[p].block = i }) = 1)

\* a sync batch of two blocks went through with exit_code 0
C4_Witness ==
    /\ pc = "done"
    /\ _sync_execution
    /\ Len(code_blocks) = 2
    /\ result.exit_code = 0
    /\ Len(Submitted) = 2

\* ------------------------------------------------------------------ C5
SEPARATOR == "\n===\n"

RECURSIVE JoinedUpTo(_, _)
JoinedUpTo(outs, n) ==
    IF n = 1 THEN outs[1]
    ELSE JoinedUpTo(outs, n - 1) \o SEPARATOR \o outs[n]

RECURSIVE TotalLen(_)
TotalLen(outs) == IF outs = <<>> THEN 0 ELSE Len(Head(outs)) + TotalLen(Tail(outs))

\* C5: when all n >= 1 blocks succeed the output is the n per-block outputs
\* in block order with the separator between neighbours, n-1 separators in
\* all, also around empty outputs, and execution_id is the id of the
\* execution of the last block.
C5_JoinedOutput ==
    (ret = "completed" /\ Len(code_blocks) >= 1) =>
        LET n == Len(code_blocks)
        IN  /\ Len(outputs) = n
            /\ result.output = JoinedUpTo(outputs, n)
            /\ Len(result.output) = TotalLen(outputs) + (n - 1) * Len(SEPARATOR)
            /\ result.execution_id = Submitted[n].id
            /\ Submitted[n].block = n

\* two blocks succeeded, the first with an empty output
C5_Witness ==
    /\ ret = "completed"
    /\ Len(code_blocks) = 2
    /\ outputs[1] = ""
    /\ outputs[2] # ""
    /\ result.output = SEPARATOR \o outputs[2]

\* ------------------------------------------------------------------ C6
RECURSIVE JoinedLines(_)
JoinedLines(lines) ==
    IF Len(lines) = 1 THEN lines[1]
    ELSE JoinedLines(SubSeq(lines, 1, Len(lines) - 1)) \o "\n" \o lines[Len(lines)]

\* the log section the specification describes for a handle's log entries
LogSection(logs) ==
    IF logs = <<>> THEN ""
    ELSE "\n\nExecution logs:\n"
         \o JoinedLines([i \in 1..Len(logs) |->
                logs[i].timestamp \o " - " \o logs[i].level \o ": " \o logs[i].message])

\* C6: in sync mode, when the execution of block k reports an error after
\* wait_for_done, the outcome has exit_code 1, the id of that execution, and
\* an output that is "Execution failed with error:\n<error>" followed by the
\* log section exactly when the execution has log entries; nothing of the
\* outputs of the blocks before k is in it.
C6_ExecutionError ==
    \A p \in 1..Len(events) :
        (events[p].op = "error" /\ ErrorReported(events[p].val)) =>
            /\ _sync_execution
            /\ pc = "done"
            /\ events[p].block = idx
            /\ execution.error = events[p].val
            /\ result.exit_code = 1
            /\ result.execution_id = execution.id
            /\ result.execution_id = Submitted[Len(Submitted)].id
            /\ StartsWith(result.output,
                          "Execution failed with error:\n" \o execution.error.s)
            /\ result.output = "Execution failed with error:\n" \o execution.error.s
                                   \o LogSection(execution.logs)
            /\ (Contains(result.output, "Execution logs:") <=> execution.logs # <<>>)
            /\ ~Contains(result.output, SEPARATOR)
            /\ ~Contains(result.output, "Execution result:")

\* the second block failed with log entries after the first produced output
C6_Witness ==
    /\ ret = "execution_error"
    /\ idx = 2
    /\ Len(outputs) = 1
    /\ outputs[1] # ""
    /\ execution.logs # <<>>
    /\ ErrorReported(execution.error)

\* ------------------------------------------------------------------ C7
\* C7: when the run call for block k raises, the outcome has exit_code 1,
\* output "Error executing code: <message>", and as execution_id the id the
\* run call of block k-1 of this batch returned, or null when k = 1.
C7_RunRaises ==
    \A p \in 1..Len(events) :
        events[p].op = "run_raised" =>
            LET k == events[p].block
            IN  /\ pc = "done"
                /\ result.exit_code = 1
                /\ result.output = "Error executing code: " \o events[p].val.s
                /\ (k = 1 => result.execution_id = None)
                /\ (k > 1 => /\ Len(Submitted) = k - 1
                             /\ Submitted[k - 1].block = k - 1
                             /\ result.execution_id = Submitted[k - 1].id
                             /\ result.execution_id # None)

\* run raised on the second block; the first block's id is reported
C7_Witness ==
    /\ ret = "run_raised"
    /\ idx = 2
    /\ Len(Submitted) = 1
    /\ result.execution_id = Submitted[1].id

\* ------------------------------------------------------------------ C8
\* C8: at the first block whose normalized language is neither python nor
\* javascript the outcome has exit_code 1 and the output "Unsupported
\* language: <language as written>. Supported languages: python,
\* javascript"; run is not called for that block and no output of an
\* earlier block is in the result.
C8_Unsupported ==
    /\ (AtBlock /\ ~BlockSupported(idx) => \A j \in 1..(idx - 1) : BlockSupported(j))
    /\ \A p \in 1..Len(events) :
          events[p].op = "reject" =>
              LET k == events[p].block
              IN  /\ pc = "done"
                  /\ ~BlockSupported(k)
                  /\ \A j \in 1..(k - 1) : BlockSupported(j)
                  /\ result.exit_code = 1
                  /\ result.output = "Unsupported language: " \o code_blocks[k].language
                                         \o ". Supported languages: python, javascript"
                  /\ Len(RunEvents) = k - 1
                  /\ \A q \in 1..Len(RunEvents) : RunEvents[q].block # k
    /\ (pc = "done" /\ (\E i \in 1..Len(code_blocks) : ~BlockSupported(i))
          /\ ret \notin {"run_raised", "wait_for_done_raised", "execution_error"}
        => ret = "unsupported")

\* a block written "Java" is rejected after an earlier block produced output
C8_Witness ==
    /\ ret = "unsupported"
    /\ idx = 2
    /\ code_blocks[2].language = "Java"
    /\ Len(outputs) = 1
    /\ outputs[1] # ""

\* ------------------------------------------------------------------ C9
\* C9: in async mode wait_for_done is never called and error, return_value
\* and logs are never read; every submitted block contributes exactly
\* "Execution started with ID: <its id>", and exit_code is 0 unless a block
\* is unsupported or a run call raises.
C9_AsyncMode ==
    ~_sync_execution =>
        /\ EventsOf({"wait_for_done", "wait_raised", "logs", "error", "return_value"}) = <<>>
        /\ pc # "wait"
        /\ execution.error = None /\ execution.return_value = None /\ execution.logs = <<>>
        /\ Len(outputs) = Len(Submitted)
        /\ \A j \in 1..Len(Submitted) :
              outputs[j] = "Execution started with ID: " \o Submitted[j].id.s
        /\ (pc = "done" =>
              (result.exit_code = 0 <=> EventsOf({"reject", "run_raised"}) = <<>>))
        /\ (ret = "completed" =>
              result.output = JoinedUpTo(outputs, Len(outputs)))

\* an async batch of two blocks returned while both executions still ran
C9_Witness ==
    /\ ~_sync_execution
    /\ ret = "completed"
    /\ Len(code_blocks) = 2
    /\ Cardinality(running) = 2
    /\ result.exit_code = 0

\* ----------------------------------------------------------------- C10
\* C10: an empty block sequence gives exit_code 0, output "" and a null
\* execution_id without any call to the remote client.
C10_EmptyBatch ==
    (pc # "idle" /\ code_blocks = <<>>) =>
        /\ pc = "done"
        /\ result.exit_code = 0
        /\ result.output = ""
        /\ result.execution_id = None
        /\ events = <<>>
        /\ run_args = <<>>
        /\ running = {}

\* the second call on an instance that has submitted before is the empty one
C10_Witness ==
    /\ pc = "done"
    /\ code_blocks = <<>>
    /\ ncalls = 2
    /\ issued > 0

\* ----------------------------------------------------------------- C11
\* in sync mode the block before idx has just finished without error and
\* `execution` is its handle
BlockFinished ==
    /\ _sync_execution
    /\ pc = "loop"
    /\ Len(events) > 0
    /\ events[Len(events)].op = "return_value"
    /\ Len(outputs) = idx - 1

\* C11: in sync mode the output of a block that finished without error is
\* "Execution result:\n<value>" whenever the return value is not null,
\* followed by the log section whenever there is a log entry; it is the empty
\* string only when there is neither a return value nor a log entry.
C11_ResultShownWhenPresent ==
    BlockFinished =>
        LET out == outputs[idx - 1]
            shown == IF execution.return_value # None
                     THEN "Execution result:\n" \o execution.return_value.s
                     ELSE ""
        IN  /\ out = shown \o LogSection(execution.logs)
            /\ (out = "" => execution.return_value = None /\ execution.logs = <<>>)

\* ----------------------------------------------------------------- C12
\* C12: every run call passes the block's code unchanged and options whose
\* language is the normalized language, one of "python" and "javascript",
\* whose removeOnDone is the configured remove_on_done and whose timeout is
\* the configured timeout in seconds times 1000; the configured values are
\* the same for every block of every batch.
C12_RunCallShape ==
    /\ Len(run_args) = Len(RunEvents)
    /\ \A j \in 1..Len(run_args) :
          LET block == code_blocks[RunEvents[j].block]
              o == run_args[j].options
          IN  /\ run_args[j].code = block.code
              /\ DOMAIN o = {"language", "removeOnDone", "timeout"}
              /\ o.language \in {"python", "javascript"}
              /\ (block.language \in {"python", "py", "Python", "PYTHON"}
                    => o.language = "python")
              /\ (block.language \in {"javascript", "js", "JS", "JavaScript"}
                    => o.language = "javascript")
              /\ o.removeOnDone = ctor_args.remove_on_done
              /\ o.timeout = ctor_args.timeout * 1000
    /\ _timeout = ctor_args.timeout
    /\ _remove_on_done = ctor_args.remove_on_done

\* the second batch of an instance built with timeout=1, remove_on_done=True
\* has submitted its two blocks, an alias first
C12_Witness ==
    /\ ncalls = 2
    /\ Len(run_args) = 2
    /\ ctor_args.timeout = 1
    /\ ctor_args.remove_on_done
    /\ code_blocks[1].language = "JS"
    /\ run_args[1].options = [language |-> "javascript", removeOnDone |-> TRUE, timeout |-> 1000]
    /\ run_args[2].code = code_blocks[2].code

\* ----------------------------------------------------------------- C13
\* c and d are the same letter, whatever their case
SameLetter(c, d) ==
    \/ c = d
    \/ \E i \in 1..Len(UpperAlphabet) :
          {c, d} = {SubSeq(UpperAlphabet, i, i), SubSeq(LowerAlphabet, i, i)}

\* a and b are the same name, case ignored
SameIgnoringCase(a, b) ==
    /\ Len(a) = Len(b)
    /\ \A i \in 1..Len(a) : SameLetter(SubSeq(a, i, i), SubSeq(b, i, i))

IsUpperCase(c) == \E i \in 1..Len(UpperAlphabet) : SubSeq(UpperAlphabet, i, i) = c

\* b is a with every upper-case letter replaced by its lower-case letter
Lowercased(a, b) ==
    /\ SameIgnoringCase(a, b)
    /\ \A i \in 1..Len(b) : ~IsUpperCase(SubSeq(b, i, i))

NamesPython(l) == \E n \in {"py", "python"} : SameIgnoringCase(l, n)
NamesJavaScript(l) == \E n \in {"js", "javascript"} : SameIgnoringCase(l, n)

\* what C13 and its amendment agree on: the aliases, case ignored
AliasesNormalized ==
    /\ (NamesPython(language) => normalized = "python")
    /\ (NamesJavaScript(language) => normalized = "javascript")

\* C13 as stated: "py" and "python" give "python", "js" and "javascript"
\* give "javascript", case ignored, and every other input string is
\* returned unchanged, character for character.
C13_OthersUnchanged ==
    pc = "normalized" =>
        /\ AliasesNormalized
        /\ (~NamesPython(language) /\ ~NamesJavaScript(language)
              => normalized = language)

\* C13 as amended: the aliases as stated; every other input string is
\* returned in lower case, so it comes back unchanged exactly when it has
\* no upper-case letter.
C13_OthersLowercased ==
    pc = "normalized" =>
        /\ AliasesNormalized
        /\ (~NamesPython(language) /\ ~NamesJavaScript(language)
              => /\ Lowercased(language, normalized)
                 /\ (normalized = language <=>
                        \A i \in 1..Len(language) : ~IsUpperCase(SubSeq(language, i, i))))

\* "Java" came back as "java"
C13_Witness ==
    /\ pc = "normalized"
    /\ language = "Java"
    /\ normalized = "java"

\* ----------------------------------------------------------------- C14
\* a token, that is a non-empty string
IsToken(v) == v.k = "str" /\ v.s # ""

ConfigurationError(r) == StartsWith(r, "ValueError")

\* C14: construction fails with a configuration error for every timeout < 1
\* and whenever neither the argument nor the environment variable holds a
\* token; for every timeout >= 1 with a token available it succeeds unless
\* the client setup raises, keeps timeout, remove_on_done and sync_execution
\* as given, and sets the client up with the explicit token when one is
\* given, otherwise with the value of the environment.
C14_Construction ==
    pc # "new" =>
        LET a == ctor_args
            available == IsToken(a.api_token) \/ IsToken(a.environ)
        IN  /\ (a.timeout < 1 => ConfigurationError(ctor_result))
            /\ (~available => ConfigurationError(ctor_result))
            /\ (ConfigurationError(ctor_result) => a.timeout < 1 \/ ~available)
            /\ (a.timeout >= 1 /\ available /\ ~a.setup_raises
                  => /\ ctor_result = "constructed"
                     /\ pc = "idle"
                     /\ _timeout = a.timeout
                     /\ _remove_on_done = a.remove_on_done
                     /\ _sync_execution = a.sync_execution
                     /\ _runner = [api_token |-> IF IsToken(a.api_token)
                                                THEN a.api_token ELSE a.environ]
                     /\ _api_token = _runner.api_token)
            /\ (a.timeout >= 1 /\ available /\ a.setup_raises
                  => StartsWith(ctor_result, "RuntimeError"))
            /\ (ctor_result # "constructed" => pc = "failed" /\ _runner = None)

\* both an argument and an environment value: the argument is used
C14_Witness ==
    /\ pc = "idle"
    /\ ctor_result = "constructed"
    /\ ctor_args.api_token = Str("test_token")
    /\ ctor_args.environ = Str("env_token")
    /\ ctor_args.timeout = 1
    /\ _runner = [api_token |-> Str("test_token")]

\* ----------------------------------------------------------------- C15
\* the ids the instance obtained in its earlier calls
EarlierIds == { ExecutionId(n) : n \in 1..(issued - Len(Submitted)) }

\* the id of the latest execution of this call, null when there is none
LatestId == IF Submitted = <<>> THEN None ELSE Submitted[Len(Submitted)].id

\* what a fresh instance of the same configuration returns for code_blocks
\* when the remote client answers as recorded in this call
FreshOutcome ==
    LET last == events[Len(events)]
    IN  IF events = <<>>
        THEN [exit_code |-> 0, output |-> "", execution_id |-> None]
        ELSE IF last.op = "reject"
        THEN [exit_code |-> 1,
              output |-> "Unsupported language: " \o code_blocks[last.block].language
                             \o ". Supported languages: python, javascript",
              execution_id |-> None]
        ELSE IF last.op \in {"run_raised", "wait_raised"}
        THEN [exit_code |-> 1,
              output |-> "Error executing code: " \o last.val.s,
              execution_id |-> LatestId]
        ELSE IF last.op = "error"
        THEN [exit_code |-> 1,
              output |-> "Execution failed with error:\n" \o last.val.s
                             \o LogSection(execution.logs),
              execution_id |-> LatestId]
        ELSE [exit_code |-> 0,
              output |-> JoinedUpTo(outputs, Len(code_blocks)),
              execution_id |-> LatestId]

C15_EachCallFresh ==
    /\ Len(outputs) <= Len(Submitted)
    /\ (pc \in {"loop", "wait"} =>
          last_execution_id = LatestId /\ last_execution_id \notin EarlierIds)
    /\ (pc = "done" =>
          /\ result = FreshOutcome
          /\ result.execution_id \notin EarlierIds)

\* C15: nothing persists across calls on one instance: whatever calls and
\* restart() calls came before, a call returns what a fresh instance of the
\* same configuration returns for the same blocks and the same remote
\* responses, its execution_id is never an id of an earlier call, and
\* neither restart() nor a call changes the configuration or the client.
C15_NoStateAcrossCalls ==
    /\ [](C15_EachCallFresh)
    /\ [][config' = config]_vars
    /\ [][pc = "idle" /\ pc' = "idle" => vars' = vars]_vars

\* the second call fails at its first run after the first call obtained ids
C15_Witness ==
    /\ ncalls = 2
    /\ pc = "done"
    /\ ret = "run_raised"
    /\ idx = 1
    /\ EarlierIds # {}
    /\ result.execution_id = None

\* ----------------------------------------------------------------- C16
\* the positions in the event log of the events `ops` on execution id
PositionsOf(ops, id) ==
    { p \in 1..Len(events) : events[p].op \in ops /\ events[p].id = id }

\* C16: in sync mode wait_for_done is called exactly once on every execution
\* run returned, after that run call returned and before the run call of the
\* next block, and error, return_value and logs of an execution are read
\* only after its wait_for_done has returned.
C16_WaitThenRead ==
    _sync_execution =>
        /\ \A p \in 1..Len(events) :
              events[p].op = "run" =>
                  LET id == events[p].id
                      waits == PositionsOf({"wait_for_done"}, id)
                  IN  /\ Cardinality(waits) = 1
                      /\ \A w \in waits : w > p
                      /\ \A q \in 1..Len(events) :
                            (q > p /\ events[q].op \in {"run", "run_raised"})
                                => \E w \in waits : w < q
        /\ \A r \in 1..Len(events) :
              events[r].op \in {"logs", "error", "return_value"} =>
                  \E w \in PositionsOf({"wait_for_done"}, events[r].id) :
                      \E d \in PositionsOf({"wait_returned"}, events[r].id) :
                          w < d /\ d < r
        /\ \A w \in 1..Len(events) :
              events[w].op \in {"wait_for_done", "wait_returned", "wait_raised"} =>
                  PositionsOf({"run"}, events[w].id) # {}
        /\ (pc = "wait" => PositionsOf({"wait_returned", "logs", "error", "return_value"},
                                       execution.id) = {})

\* two blocks were submitted, awaited and read, one after the other
C16_Witness ==
    /\ _sync_execution
    /\ pc = "loop"
    /\ idx = 3
    /\ Len(EventsOf({"wait_for_done"})) = 2
    /\ Len(EventsOf({"wait_returned"})) = 2
    /\ Len(EventsOf({"return_value"})) = 2

\* ----------------------------------------------------------------- C17
\* C17: languages are not validated before the batch starts: when the first
\* unsupported block is at position k > 1, run has been called for each of
\* the k-1 blocks before it, those executions exist at the service, and the
\* unsupported-language outcome still has a null execution_id, not the id
\* of the last submitted execution.
C17_RejectedAfterSubmissions ==
    /\ \A p \in 1..Len(events) :
          events[p].op = "reject" =>
              LET k == events[p].block
              IN  /\ \A j \in 1..(k - 1) : BlockSupported(j)
                  /\ ~BlockSupported(k)
                  /\ Len(Submitted) = k - 1
                  /\ \A j \in 1..(k - 1) :
                        /\ Submitted[j].block = j
                        /\ run_args[j].code = code_blocks[j].code
                        /\ Submitted[j].id = ExecutionId(issued - (k - 1) + j)
                  /\ issued >= k - 1
                  /\ result.exit_code = 1
                  /\ result.execution_id = None
                  /\ (k > 1 => LatestId # None /\ result.execution_id # LatestId)
    /\ (AtBlock /\ (\E i \in idx..Len(code_blocks) : ~BlockSupported(i))
          => Len(RunEvents) = idx - 1)

\* async mode: the second block is rejected while the execution of the
\* first is still running, and the outcome does not name it
C17_Witness ==
    /\ ~_sync_execution
    /\ ret = "unsupported"
    /\ idx = 2
    /\ Len(Submitted) = 1
    /\ running = {Submitted[1].id}
    /\ result.execution_id = None

====
